---------------------------- MODULE Spec2Model ----------------------------
(*
  avatar-streamer: the frame fingerprinting and latency correlation pipeline.

    src/robot/stream.py    VideoStreamer        (sender: capture, fingerprint,
                                                 side-channel publish, transport write)
    src/operator/view.py   LatencyCalculator    (correlation store, latency window)
                           VideoStreamReceiver  (transport reader, decode, frame queue,
                                                 render loop)

  Time is counted in whole seconds of time.time().  A frame is a record
  [h, w, px] where px maps <<row, col, channel>> to a byte.  The fingerprint
  cells are squares of CellSide pixels (32 in the source); every slice bound of
  the source is the same multiple of CellSide here.

  Left out, because nothing else reads them: the text and overlay drawn on a
  frame, the print statements, the sender's ZMQ message statistics
  (zmq_messages_sent, last_zmq_print), the arrival-rate list of
  calculate_latency, and the fps value the render loop displays.
*)
EXTENDS Integers, Sequences, FiniteSets, TLC

VARIABLES
    \* ---- sender (VideoStreamer) ----
    s_pc,              \* position of the sender: idle, capture, process, fps, write, stopped
    s_running,         \* self.running
    s_frame_count,     \* self.frame_count (fingerprint counter AND fps counter)
    s_start_time,      \* self.start_time
    s_last_fps_print,  \* self.last_fps_print
    s_clock,           \* time.time() on the sender host
    s_frame,           \* the frame of the current loop iteration (NoFrame outside one)
    s_painted,         \* history: the counter painted on s_frame by process_frame
    cfg_dims,          \* config: <<height, width>> of every frame
    zmq_out,           \* the side-channel message of the current iteration (NoMsg if none)
    wire,              \* the frame last written to the transport, as written
    written,           \* history: the counters painted on the last two frames written
    s_log,             \* history: the steps of the current loop iteration, in order
    s_res,             \* the sender's resources and the outcome of its stop() calls
    \* ---- correlation store and latency window (LatencyCalculator) ----
    frame_timestamps,  \* self.frame_timestamps : frame_count -> timestamp
    latency_values,    \* self.latency_values   : deque(maxlen=30)
    all_latencies,     \* history: every latency sample ever appended
    last_call,         \* history: the last LatencyCalculator call, its arguments and result
    evicted_keys,      \* history: the keys the clean-up removed and nobody recorded since
    ncalls,            \* number of LatencyCalculator calls made (bounds the run)
    \* ---- receiver (VideoStreamReceiver) ----
    r_running,         \* self.running
    r_pc,              \* position of the transport reader thread
    r_frame,           \* the frame the reader holds
    r_decoded,         \* history: result of the last process_frame (decode) call
    r_push,            \* history: outcome of the reader's last push attempt
    frame_queue,       \* self.frame_queue : queue.Queue(maxsize=10)
    d_pc,              \* position of the render loop
    d_frame_count,     \* self.frame_count of the receiver
    d_last_time,       \* last_time of _display_loop
    r_clock,           \* time.time() on the receiver host
    r_res,             \* the receiver's resources and the outcome of its stop() calls
    \* ---- side-channel subscriber thread of the receiver ----
    sub_pc,            \* position of _receive_zmq_messages
    sub_inbox,         \* the messages waiting on the SUB socket
    sub_hist,          \* history: the last two messages handled and what became of them
    \* ---- recorder (StreamRecorder) ----
    rec,               \* running flag, resources and the outcome of its stop() calls
    \* ---- environment ----
    faults,            \* the library calls that raise or time out in this run
    lossy              \* the counters whose side-channel message is lost in this run

senderVars == <<s_pc, s_running, s_frame_count, s_start_time, s_last_fps_print,
                s_clock, s_frame, s_painted, cfg_dims, zmq_out, wire, written,
                s_log, s_res>>
storeVars  == <<frame_timestamps, latency_values, all_latencies, last_call,
                evicted_keys, ncalls>>
recvVars   == <<r_running, r_pc, r_frame, r_decoded, r_push, frame_queue, d_pc,
                d_frame_count, d_last_time, r_clock, r_res>>
subVars    == <<sub_pc, sub_inbox, sub_hist>>
sideVars   == <<subVars, rec, faults, lossy>>
vars       == <<senderVars, storeVars, recvVars, sideVars>>

-----------------------------------------------------------------------------
(* Bounds of the model *)

CellSide == 2        \* side of a fingerprint cell in pixels (32 in the source)
MaxClock == 1        \* each clock runs from 0 to MaxClock seconds
MaxCalls == 3        \* LatencyCalculator calls made by the store driver
MaxDisplayCount == 2 \* frames the render loop counts between two fps resets
MaxInbox == 1        \* messages waiting on the SUB socket
MaxSamples == 2      \* latency samples taken in a run that starts with a filled queue
MaxLinkCount == 2    \* counter value up to which the sender goes on capturing

(* Program constants *)

FingerprintModulus == 32   \* stream.py:155
White == 255               \* stream.py:159
Threshold == 128           \* view.py:192
FpsInterval == 1           \* stream.py:201
MaxEntries == 100          \* view.py:57
LatencyMaxlen == 30        \* view.py:28
MsPerSecond == 1000        \* view.py:66
QueueMaxsize == 10         \* view.py:89

NoFrame == [h |-> 0, w |-> 0, px |-> <<>>]
NoMsg   == [frame_count |-> -1, timestamp |-> -1]

Channels == 0 .. 2
Bits     == 0 .. 4

-----------------------------------------------------------------------------
(* Frames and numpy slicing *)

\* frame[r0:r1, c0:c1, :] : the pixel indices of a slice <<r0, r1, c0, c1>>,
\* clipped to the frame as numpy clips it
SliceOf(h, w, rect) ==
    { <<r, c, ch>> \in (0 .. h - 1) \X (0 .. w - 1) \X Channels :
        rect[1] <= r /\ r < rect[2] /\ rect[3] <= c /\ c < rect[4] }
Slice(f, rect) == SliceOf(f.h, f.w, rect)

InSlice(p, rect) ==
    rect[1] <= p[1] /\ p[1] < rect[2] /\ rect[3] <= p[2] /\ p[2] < rect[4]

\* a frame of one gray level, as the capture device or the decoder delivers it
UniformFrame(h, w, v) ==
    [h |-> h, w |-> w,
     px |-> [p \in (0 .. h - 1) \X (0 .. w - 1) \X Channels |-> v]]

\* fn[lo] + ... + fn[hi]
RECURSIVE SumFn(_, _, _)
SumFn(fn, lo, hi) == IF lo > hi THEN 0 ELSE fn[lo] + SumFn(fn, lo + 1, hi)

\* the sum of the bytes px[p] over the pixel indices p in S, taken row by row
\* and column by column
SumOver(px, S) ==
    IF S = {} THEN 0
    ELSE LET rows == { p[1] : p \in S }
             cols == { p[2] : p \in S }
             r0 == CHOOSE r \in rows : \A x \in rows : r <= x
             r1 == CHOOSE r \in rows : \A x \in rows : r >= x
             c0 == CHOOSE c \in cols : \A x \in cols : c <= x
             c1 == CHOOSE c \in cols : \A x \in cols : c >= x
             byte(r, c, ch) == IF <<r, c, ch>> \in S THEN px[<<r, c, ch>>] ELSE 0
             rowsum(r) == SumFn([c \in c0 .. c1 |->
                                   byte(r, c, 0) + byte(r, c, 1) + byte(r, c, 2)],
                                c0, c1)
         IN SumFn([r \in r0 .. r1 |-> rowsum(r)], r0, r1)

\* bit i of a non-negative integer: (n >> i) & 1
BitOf(n, i) == (n \div (2 ^ i)) % 2

-----------------------------------------------------------------------------
(* Fingerprint codec *)

\* a variant that takes the cells in column-major order
EncCellColumnMajor(i) ==
    CASE i = 0 -> <<0, CellSide, 0, CellSide>>
      [] i = 1 -> <<CellSide, 2 * CellSide, 0, CellSide>>
      [] i = 2 -> <<0, CellSide, CellSide, 2 * CellSide>>
      [] i = 3 -> <<CellSide, 2 * CellSide, CellSide, 2 * CellSide>>
      [] i = 4 -> <<2 * CellSide, 3 * CellSide, 0, CellSide>>

\* the slices VideoStreamer.process_frame assigns, by bit: <<r0, r1, c0, c1>>
EncCell(i) ==
    CASE i = 0 -> <<0, CellSide, 0, CellSide>>
      [] i = 1 -> <<0, CellSide, CellSide, 2 * CellSide>>
      [] i = 2 -> <<CellSide, 2 * CellSide, 0, CellSide>>
      [] i = 3 -> <<CellSide, 2 * CellSide, CellSide, 2 * CellSide>>
      [] i = 4 -> <<2 * CellSide, 3 * CellSide, 0, CellSide>>

\* the slices VideoStreamReceiver.process_frame averages, by bit
DecCell(i) ==
    CASE i = 0 -> <<0, CellSide, 0, CellSide>>
      [] i = 1 -> <<0, CellSide, CellSide, 2 * CellSide>>
      [] i = 2 -> <<CellSide, 2 * CellSide, 0, CellSide>>
      [] i = 3 -> <<CellSide, 2 * CellSide, CellSide, 2 * CellSide>>
      [] i = 4 -> <<2 * CellSide, 3 * CellSide, 0, CellSide>>

\* one assignment frame[cell_i] = (counter >> i & 1) * 255, in place
\* (a slice that lies outside the frame is empty and the assignment paints nothing)
PaintCell(px, counter, i) ==
    [p \in DOMAIN px |->
        IF InSlice(p, EncCell(i)) THEN BitOf(counter, i) * White ELSE px[p]]

\* the five assignments of VideoStreamer.process_frame, in the order of the source
Encode(f, counter) ==
    [f EXCEPT !.px =
        PaintCell(PaintCell(PaintCell(PaintCell(PaintCell(f.px,
            counter, 0), counter, 1), counter, 2), counter, 3), counter, 4)]

\* int(np.average(cell)) : the mean, truncated to an integer (cell not empty)
IntAverage(f, cell) == SumOver(f.px, cell) \div Cardinality(cell)

\* the five decoded_counter |= (1 << i) if int(np.average(cell_i)) > 128 else 0;
\* np.average of an empty slice is nan and int(nan) raises ValueError
Decode(f) ==
    IF \E i \in Bits : Slice(f, DecCell(i)) = {}
    THEN [ok |-> FALSE, counter |-> -1]
    ELSE LET bit(i) == IF IntAverage(f, Slice(f, DecCell(i))) > Threshold
                       THEN 2 ^ i ELSE 0
         IN [ok |-> TRUE, counter |-> bit(0) + bit(1) + bit(2) + bit(3) + bit(4)]

-----------------------------------------------------------------------------
(* Correlation store and latency window: LatencyCalculator *)

RECURSIVE SumSeq(_)
SumSeq(s) == IF s = <<>> THEN 0 ELSE Head(s) + SumSeq(Tail(s))

MinOf(S) == CHOOSE x \in S : \A y \in S : x <= y

\* dict assignment d[k] = v
DictSet(d, k, v) == [x \in DOMAIN d \cup {k} |-> IF x = k THEN v ELSE d[x]]

\* dict.pop(k)
DictPop(d, k) == [x \in DOMAIN d \ {k} |-> d[x]]

\* oldest = min(self.frame_timestamps.keys())
Oldest(d) == MinOf(DOMAIN d)

\* store_frame_timestamp without the clean-up
StoreNoCleanup(d, frame_count, timestamp) == DictSet(d, frame_count, timestamp)

\* store_frame_timestamp: the dict after the call
StoreFrameTimestamp(d, frame_count, timestamp) ==
    LET ins == DictSet(d, frame_count, timestamp)
    IN IF Cardinality(DOMAIN ins) > MaxEntries THEN DictPop(ins, Oldest(ins)) ELSE ins

\* deque(maxlen=30).append(x)
DequeAppendUnbounded(q, x) == Append(q, x)
DequeAppend(q, x) ==
    IF Len(q) >= LatencyMaxlen THEN Append(Tail(q), x) ELSE Append(q, x)

NoCall == [op |-> "none", frame_count |-> -1, arg |-> -1, hit |-> FALSE,
           latency |-> 0, avg_sum |-> 0, avg_len |-> 0, evicted |-> {},
           evicted_ts |-> {}]

\* self.latency_calc.store_frame_timestamp(frame_count, timestamp)
Record(frame_count, timestamp) ==
    LET after == StoreFrameTimestamp(frame_timestamps, frame_count, timestamp)
        gone  == (DOMAIN frame_timestamps \cup {frame_count}) \ DOMAIN after
    IN /\ frame_timestamps' = after
       /\ last_call' = [NoCall EXCEPT !.op = "Record", !.frame_count = frame_count,
                            !.arg = timestamp,
                            !.evicted = gone,
                            !.evicted_ts =
                                { DictSet(frame_timestamps, frame_count, timestamp)[k] :
                                    k \in gone }]
       /\ evicted_keys' = (evicted_keys \ {frame_count}) \cup gone
       /\ UNCHANGED <<latency_values, all_latencies>>

\* a variant of the lookup that consumes the entry it reads
CorrelateStorePopping(d, frame_count) ==
    IF frame_count \in DOMAIN d THEN DictPop(d, frame_count) ELSE d
\* calculate_true_latency never writes self.frame_timestamps
CorrelateStore(d, frame_count) == d

\* a variant of the miss branch that records a zero sample
MissWindowZero(q) == DequeAppend(q, 0)
\* the miss branch of calculate_true_latency: return None, None
MissWindow(q) == q

\* self.latency_calc.calculate_true_latency(frame_count), time.time() = now
Correlate(frame_count, now) ==
    IF frame_count \in DOMAIN frame_timestamps
    THEN LET sent_time  == frame_timestamps[frame_count]
             latency_ms == (now - sent_time) * MsPerSecond
             window     == DequeAppend(latency_values, latency_ms)
         IN /\ latency_values' = window
            /\ all_latencies' = Append(all_latencies, latency_ms)
            /\ frame_timestamps' = CorrelateStore(frame_timestamps, frame_count)
            /\ last_call' = [NoCall EXCEPT !.op = "Correlate",
                                 !.frame_count = frame_count, !.arg = now,
                                 !.hit = TRUE, !.latency = latency_ms,
                                 !.avg_sum = SumSeq(window), !.avg_len = Len(window)]
            /\ UNCHANGED evicted_keys
    ELSE /\ latency_values' = MissWindow(latency_values)
         /\ frame_timestamps' = CorrelateStore(frame_timestamps, frame_count)
         /\ last_call' = [NoCall EXCEPT !.op = "Correlate",
                              !.frame_count = frame_count, !.arg = now]
         /\ UNCHANGED <<all_latencies, evicted_keys>>

-----------------------------------------------------------------------------
(* Sender: VideoStreamer *)

\* a frame as the camera delivers it: here a checkerboard of black and white
\* pixels, so that every cell holds pixels the encoder must darken and pixels
\* it must brighten
CameraFrame(h, w) ==
    [h |-> h, w |-> w,
     px |-> [p \in (0 .. h - 1) \X (0 .. w - 1) \X Channels |->
                IF (p[1] + p[2]) % 2 = 0 THEN White ELSE 0]]

\* the frame sizes the configuration may name: smaller than the region map,
\* larger than it
FrameDims == { <<2 * CellSide, 2 * CellSide>>,
               <<3 * CellSide + 1, 2 * CellSide + 1>> }

NoWire == [frame |-> NoFrame, painted |-> -1]

\* a variant whose counter never wraps
NextCounterUnbounded(c) == c + 1
\* self.frame_count = (self.frame_count + 1) % 32
NextCounter(c) == (c + 1) % FingerprintModulus

\* a variant that builds the message before the counter advances
PublishedCountBeforeAdvance(before, after) == before
\* "frame_count": self.frame_count in the message, read after the counter advanced
PublishedCount(before, after) == after

\* a variant in which an error of send_string leaves process_frame and the loop
AfterPublishErrorLeavesLoop == "stopped"
\* except Exception as e: print(...) ; process_frame goes on to return frame
AfterPublishError == "fps"

\* one step of a loop iteration, for s_log
Step(ev, n) == [ev |-> ev, n |-> n]

\* the sender after __init__: PUB socket bound, no camera, ffmpeg_process = None
SenderResInit ==
    [sock |-> "open", ctx |-> "open", cap |-> "none", ffmpeg |-> "none",
     stops |-> 0, raised |-> FALSE]

\* the library calls of the sender's stop() that may fail: zmq_socket.close(),
\* zmq_context.term() raise; ffmpeg_process.wait(timeout=2) times out
SenderFaults == {"s_close", "s_term", "s_wait"}

\* the release steps of VideoStreamer.stop(), in the order of the source
SenderReleaseOrder == <<"sock", "ctx", "cap", "ffmpeg">>

\* a variant of the ffmpeg step that forgets the process once it is stopped
\* (self.ffmpeg_process = None)
SenderReleaseStepForgetting(res, step, flt) ==
    CASE step = "sock" ->
           IF res.sock = "open" /\ "s_close" \notin flt
           THEN [res EXCEPT !.sock = "closed"] ELSE res
      [] step = "ctx" ->
           IF res.ctx = "open" /\ "s_term" \notin flt
           THEN [res EXCEPT !.ctx = "terminated"] ELSE res
      [] step = "cap" ->
           IF res.cap = "opened" THEN [res EXCEPT !.cap = "released"] ELSE res
      [] step = "ffmpeg" ->
           IF res.ffmpeg = "none" THEN [res EXCEPT !.raised = TRUE]
           ELSE [res EXCEPT !.ffmpeg = "none"]

\* one release step of VideoStreamer.stop().  Closing what is already closed
\* does nothing.  The two ZeroMQ steps catch their error.  The ffmpeg step
\* runs stdin.close(), terminate(), wait(timeout=2) under a bare except that
\* calls kill(); with ffmpeg_process = None the except clause itself raises.
SenderReleaseStep(res, step, flt) ==
    CASE step = "sock" ->
           IF res.sock = "open" /\ "s_close" \notin flt
           THEN [res EXCEPT !.sock = "closed"] ELSE res
      [] step = "ctx" ->
           IF res.ctx = "open" /\ "s_term" \notin flt
           THEN [res EXCEPT !.ctx = "terminated"] ELSE res
      [] step = "cap" ->
           IF res.cap = "opened" THEN [res EXCEPT !.cap = "released"] ELSE res
      [] step = "ffmpeg" ->
           IF res.ffmpeg = "none" THEN [res EXCEPT !.raised = TRUE]
           ELSE IF res.ffmpeg = "running"
           THEN [res EXCEPT !.ffmpeg = IF "s_wait" \in flt THEN "killed"
                                       ELSE "terminated"]
           ELSE res

\* the release steps in order; a step that raises ends the call
RECURSIVE SenderRelease(_, _, _)
SenderRelease(res, steps, flt) ==
    IF steps = <<>> \/ res.raised THEN res
    ELSE SenderRelease(SenderReleaseStep(res, Head(steps), flt), Tail(steps), flt)

\* the resources after one call of VideoStreamer.stop()
SenderStopRes(res, flt) ==
    LET after == SenderRelease([res EXCEPT !.raised = FALSE], SenderReleaseOrder, flt)
    IN [after EXCEPT !.stops = res.stops + 1]

SenderInit ==
    /\ s_pc = "idle"
    /\ s_running = FALSE
    /\ s_frame_count = 0
    /\ s_start_time = 0
    /\ s_last_fps_print = 0
    /\ s_clock = 0
    /\ s_frame = NoFrame
    /\ s_painted = -1
    /\ cfg_dims \in FrameDims
    /\ zmq_out = NoMsg
    /\ wire = NoWire
    /\ written = <<>>
    /\ s_log = <<>>
    /\ s_res = SenderResInit

\* time passes on the sender host (observed only where the loop reads
\* time.time(): in process_frame and in calculate_fps)
SenderTick ==
    /\ s_clock < MaxClock
    /\ s_pc \in {"process", "fps"}
    /\ s_clock' = s_clock + 1
    /\ UNCHANGED <<s_pc, s_running, s_frame_count, s_start_time, s_last_fps_print,
                   s_frame, s_painted, cfg_dims, zmq_out, wire, written, s_log,
                   s_res>>

\* start(): running = True, set up camera and ffmpeg; a camera that does not
\* open makes start return False
SenderStart ==
    /\ s_pc = "idle"
    /\ s_running' = TRUE
    /\ \E opened \in BOOLEAN :
         IF opened
         THEN /\ s_pc' = "capture"
              /\ s_res' = [s_res EXCEPT !.cap = "opened", !.ffmpeg = "running"]
         ELSE /\ s_pc' = "failed"
              /\ s_res' = [s_res EXCEPT !.cap = "unopened"]
    /\ UNCHANGED <<s_frame_count, s_start_time, s_last_fps_print, s_clock, s_frame,
                   s_painted, cfg_dims, zmq_out, wire, written, s_log>>

\* while self.running: ret, frame = self.cap.read(); if not ret: sleep, continue
SenderCapture ==
    /\ s_pc = "capture"
    /\ s_running
    /\ \E ret \in BOOLEAN :
         IF ret
         THEN /\ s_frame' = CameraFrame(cfg_dims[1], cfg_dims[2])
              /\ s_pc' = "process"
         ELSE UNCHANGED <<s_frame, s_pc>>
    /\ zmq_out' = NoMsg
    /\ s_painted' = -1
    /\ s_log' = <<>>
    /\ UNCHANGED <<s_running, s_frame_count, s_start_time, s_last_fps_print, s_clock,
                   cfg_dims, wire, written, s_res>>

\* process_frame(frame): advance the counter, paint it, publish (counter, time);
\* an error of send_string is caught and printed
SenderProcessFrame ==
    /\ s_pc = "process"
    /\ LET c == NextCounter(s_frame_count)
           m == PublishedCount(s_frame_count, c)
       IN /\ s_frame_count' = c
          /\ s_frame' = Encode(s_frame, c)
          /\ s_painted' = c
          /\ \E sent \in BOOLEAN :
               IF sent
               THEN /\ zmq_out' = [frame_count |-> m, timestamp |-> s_clock]
                    /\ s_log' = <<Step("advance", c), Step("paint", c),
                                  Step("publish", m)>>
                    /\ s_pc' = "fps"
               ELSE /\ zmq_out' = NoMsg
                    /\ s_log' = <<Step("advance", c), Step("paint", c),
                                  Step("publish_failed", m)>>
                    /\ s_pc' = AfterPublishError
    /\ UNCHANGED <<s_running, s_start_time, s_last_fps_print, s_clock,
                   cfg_dims, wire, written, s_res>>

\* calculate_fps(): once a second print frame_count / elapsed and reset
SenderCalculateFps ==
    /\ s_pc = "fps"
    /\ IF s_clock - s_last_fps_print >= FpsInterval
       THEN /\ s_frame_count' = 0
            /\ s_start_time' = s_clock
            /\ s_last_fps_print' = s_clock
       ELSE UNCHANGED <<s_frame_count, s_start_time, s_last_fps_print>>
    /\ s_pc' = "write"
    /\ UNCHANGED <<s_running, s_clock, s_frame, s_painted, cfg_dims, zmq_out, wire,
                   written, s_log, s_res>>

LastTwo(s) == IF Len(s) > 2 THEN Tail(s) ELSE s

\* stop(): running = False and release everything
SenderStopEffect ==
    /\ s_running' = FALSE
    /\ s_res' = SenderStopRes(s_res, faults)

\* self.ffmpeg_process.stdin.write(processed_frame.tobytes()); an error of the
\* write leaves the loop through the except clause and finally calls stop()
SenderWrite ==
    /\ s_pc = "write"
    /\ \E ok \in BOOLEAN :
         IF ok
         THEN /\ wire = NoWire     \* the pipe holds one frame; a write to a full pipe waits
              /\ wire' = [frame |-> s_frame, painted |-> s_painted]
              /\ written' = LastTwo(Append(written, s_painted))
              /\ s_log' = Append(s_log, Step("write", s_painted))
              /\ s_pc' = "capture"
              /\ UNCHANGED <<s_running, s_res>>
         ELSE /\ SenderStopEffect
              /\ s_pc' = "stopped"
              /\ s_log' = Append(s_log, Step("write_failed", s_painted))
              /\ UNCHANGED <<wire, written>>
    /\ s_frame' = NoFrame
    /\ UNCHANGED <<s_frame_count, s_start_time, s_last_fps_print, s_clock, s_painted,
                   cfg_dims, zmq_out>>

\* KeyboardInterrupt inside the loop: the finally clause of start() calls stop().
\* At the loop head the iteration before is over and the interrupt falls into
\* the next one.
SenderStop ==
    /\ s_pc \in {"capture", "process", "fps", "write"}
    /\ SenderStopEffect
    /\ s_pc' = "stopped"
    /\ s_log' = Append(IF s_pc = "capture" THEN <<>> ELSE s_log,
                       Step("interrupt", s_painted))
    /\ s_frame' = NoFrame
    /\ UNCHANGED <<s_frame_count, s_start_time, s_last_fps_print, s_clock, s_painted,
                   cfg_dims, zmq_out, wire, written>>

\* main(): finally: streamer.stop(), after start() has returned (from the loop,
\* where stop() has run once already, or with False after a failed start)
SenderMainFinally ==
    /\ s_pc \in {"stopped", "failed"}
    /\ SenderStopEffect
    /\ s_pc' = "exited"
    /\ UNCHANGED <<s_frame_count, s_start_time, s_last_fps_print, s_clock, s_frame,
                   s_painted, cfg_dims, zmq_out, wire, written, s_log>>

-----------------------------------------------------------------------------
(* Receiver: VideoStreamReceiver *)

NoDecode == [ok |-> FALSE, counter |-> -1, painted |-> -1, intact |-> FALSE]

StoreInitEmpty ==
    /\ frame_timestamps = <<>>
    /\ latency_values = <<>>
    /\ all_latencies = <<>>
    /\ last_call = NoCall
    /\ evicted_keys = {}
    /\ ncalls = 0

\* the receiver after __init__: SUB socket connected, no decoder process, no window
ReceiverResInit ==
    [sock |-> "open", ctx |-> "open", ffmpeg |-> "none", windows |-> "none",
     stops |-> 0, raised |-> FALSE, log |-> <<>>]

\* the library calls of the receiver's stop() that may fail: zmq_socket.close(),
\* zmq_context.term() raise; ffmpeg_process.wait(timeout=2) times out
ReceiverFaults == {"r_close", "r_term", "r_wait"}

\* a variant of stop() that destroys the windows before anything else
ReceiverReleaseOrderWindowsFirst == <<"windows", "sock", "ctx", "ffmpeg">>
\* the release steps of VideoStreamReceiver.stop(), in the order of the source
ReceiverReleaseOrder == <<"sock", "ctx", "ffmpeg", "windows">>

\* a resource after `step` released it
Released(res, step, to) ==
    [res EXCEPT ![step] = to, !.log = Append(res.log, step)]

\* one release step of VideoStreamReceiver.stop().  Closing what is already
\* closed does nothing.  Nothing catches an error of the two ZeroMQ steps.
\* terminate() is followed by wait(timeout=2) under a bare except that calls
\* kill().  res.log lists the resources in the order they were released.
ReceiverReleaseStep(res, step, flt) ==
    CASE step = "sock" ->
           IF res.sock # "open" THEN res
           ELSE IF "r_close" \in flt THEN [res EXCEPT !.raised = TRUE]
           ELSE Released(res, "sock", "closed")
      [] step = "ctx" ->
           IF res.ctx # "open" THEN res
           ELSE IF "r_term" \in flt THEN [res EXCEPT !.raised = TRUE]
           ELSE Released(res, "ctx", "terminated")
      [] step = "ffmpeg" ->
           IF res.ffmpeg \in {"running", "exited"}
           THEN Released(res, "ffmpeg",
                         IF res.ffmpeg = "running" /\ "r_wait" \in flt
                         THEN "killed" ELSE "terminated")
           ELSE res
      [] step = "windows" ->
           IF res.windows = "open" THEN Released(res, "windows", "destroyed") ELSE res

\* the release steps in order; a step that raises ends the call
RECURSIVE ReceiverRelease(_, _, _)
ReceiverRelease(res, steps, flt) ==
    IF steps = <<>> \/ res.raised THEN res
    ELSE ReceiverRelease(ReceiverReleaseStep(res, Head(steps), flt), Tail(steps), flt)

\* the resources after one call of VideoStreamReceiver.stop()
ReceiverStopRes(res, flt) ==
    LET after == ReceiverRelease([res EXCEPT !.raised = FALSE], ReceiverReleaseOrder,
                                 flt)
    IN [after EXCEPT !.stops = res.stops + 1]

RecvInit ==
    /\ r_running = FALSE
    /\ r_pc = "idle"
    /\ r_frame = NoFrame
    /\ r_decoded = NoDecode
    /\ r_push = "none"
    /\ frame_queue = <<>>
    /\ d_pc = "idle"
    /\ d_frame_count = 0
    /\ d_last_time = 0
    /\ r_clock = 0
    /\ r_res = ReceiverResInit

\* process_frame(frame) of the receiver on a frame that carries `painted` and
\* reached it with (intact) or without every pixel as written: decode the
\* counter, then calculate_true_latency(decoded_counter)
RecvProcessFrame(f, painted, intact) ==
    LET d == Decode(f)
    IN /\ r_decoded' = [ok |-> d.ok, counter |-> d.counter, painted |-> painted,
                        intact |-> intact]
       /\ IF d.ok THEN Correlate(d.counter, r_clock)
          ELSE UNCHANGED <<frame_timestamps, latency_values, all_latencies, last_call,
                           evicted_keys>>
       /\ UNCHANGED ncalls

\* the receiver's process_frame applied to the frame last written, pixel for pixel
DecodeWritten ==
    /\ wire # NoWire
    /\ RecvProcessFrame(wire.frame, wire.painted, TRUE)
    /\ wire' = NoWire
    /\ UNCHANGED <<s_pc, s_running, s_frame_count, s_start_time, s_last_fps_print,
                   s_clock, s_frame, s_painted, cfg_dims, zmq_out, written, s_log,
                   s_res>>
    /\ UNCHANGED <<r_running, r_pc, r_frame, r_push, frame_queue, d_pc, d_frame_count,
                   d_last_time, r_clock, r_res>>

-----------------------------------------------------------------------------
(* Receiver threads: the transport reader and the render loop *)

\* the frame the decoder process delivers on its output
DecoderFrames == { UniformFrame(cfg_dims[1], cfg_dims[2], White) }

\* a full-test that is off by one
QueueFullOffByOne(q) == 0 < QueueMaxsize /\ QueueMaxsize < Len(q)
\* a full-test that never reports full
QueueFullNever(q) == FALSE
\* queue.Queue.full(): 0 < maxsize <= qsize
QueueFull(q) == 0 < QueueMaxsize /\ QueueMaxsize <= Len(q)

\* queue.Queue.put(item) waits while maxsize > 0 and qsize >= maxsize
PutWaits(q) == 0 < QueueMaxsize /\ Len(q) >= QueueMaxsize

\* start(): running = True, launch the decoder, start the reader thread, enter
\* the render loop
ReceiverStart ==
    /\ d_pc = "idle"
    /\ r_running' = TRUE
    /\ r_pc' = "top"
    /\ d_pc' = "get"
    /\ d_last_time' = r_clock
    /\ r_res' = [r_res EXCEPT !.ffmpeg = "running", !.windows = "open"]
    /\ UNCHANGED <<r_frame, r_decoded, r_push, frame_queue, d_frame_count, r_clock>>
    /\ UNCHANGED storeVars

\* _read_frames: while self.running
ReaderTop ==
    /\ r_pc = "top"
    /\ r_pc' = IF r_running THEN "read" ELSE "done"
    /\ UNCHANGED <<r_running, r_frame, r_decoded, r_push, frame_queue, d_pc,
                   d_frame_count, d_last_time, r_clock, r_res>>
    /\ UNCHANGED storeVars

\* _read_frames: read one frame and process it.  A short read (all a decoder
\* that is gone can give), a read error and an error inside process_frame all
\* end the iteration after a sleep.
ReaderRead ==
    /\ r_pc = "read"
    /\ \/ \E f \in DecoderFrames :
            /\ r_res.ffmpeg = "running"
            /\ RecvProcessFrame(f, -1, FALSE)
            /\ IF Decode(f).ok
               THEN r_frame' = f /\ r_pc' = "check_full"
               ELSE r_frame' = NoFrame /\ r_pc' = "top"
       \/ /\ r_frame' = NoFrame
          /\ r_pc' = "top"
          /\ UNCHANGED <<r_decoded, storeVars>>
    /\ UNCHANGED <<r_running, r_push, frame_queue, d_pc, d_frame_count, d_last_time,
                   r_clock, r_res>>

\* _read_frames: if not self.frame_queue.full()
ReaderCheckFull ==
    /\ r_pc = "check_full"
    /\ IF QueueFull(frame_queue)
       THEN /\ r_push' = "dropped"
            /\ r_frame' = NoFrame
            /\ r_pc' = "top"
       ELSE /\ r_pc' = "put"
            /\ UNCHANGED <<r_push, r_frame>>
    /\ UNCHANGED <<r_running, r_decoded, frame_queue, d_pc, d_frame_count,
                   d_last_time, r_clock, r_res>>
    /\ UNCHANGED storeVars

\* _read_frames: self.frame_queue.put(frame), which waits for a free slot
ReaderPut ==
    /\ r_pc = "put"
    /\ ~PutWaits(frame_queue)
    /\ frame_queue' = Append(frame_queue, r_frame)
    /\ r_push' = "pushed"
    /\ r_frame' = NoFrame
    /\ r_pc' = "top"
    /\ UNCHANGED <<r_running, r_decoded, d_pc, d_frame_count, d_last_time, r_clock,
                   r_res>>
    /\ UNCHANGED storeVars

\* stop(): running = False and release everything
ReceiverStopEffect ==
    /\ r_running' = FALSE
    /\ d_pc' = "stopped"
    /\ r_res' = ReceiverStopRes(r_res, faults)

\* one iteration of _display_loop: get a frame (or time out on an empty queue),
\* count it, reset the count once a second, show it, read the keyboard;
\* the quit key clears running and leaves the loop, whose finally calls stop()
DisplayGet ==
    /\ d_pc = "get"
    /\ r_running
    /\ IF frame_queue = <<>>
       THEN UNCHANGED <<frame_queue, d_frame_count, d_last_time, r_running, d_pc,
                        r_res>>
       ELSE /\ frame_queue' = Tail(frame_queue)
            /\ IF r_clock - d_last_time >= FpsInterval
               THEN d_frame_count' = 0 /\ d_last_time' = r_clock
               ELSE /\ d_frame_count < MaxDisplayCount
                    /\ d_frame_count' = d_frame_count + 1
                    /\ UNCHANGED d_last_time
            /\ \E quit \in BOOLEAN :
                 IF quit THEN ReceiverStopEffect
                 ELSE UNCHANGED <<r_running, d_pc, r_res>>
    /\ UNCHANGED <<r_pc, r_frame, r_decoded, r_push, r_clock>>
    /\ UNCHANGED storeVars

\* an interrupt or an error in the render loop: finally calls stop()
DisplayStop ==
    /\ d_pc = "get"
    /\ ReceiverStopEffect
    /\ UNCHANGED <<r_pc, r_frame, r_decoded, r_push, frame_queue, d_frame_count,
                   d_last_time, r_clock>>
    /\ UNCHANGED storeVars

\* time passes on the receiver host
RecvTick ==
    /\ r_clock < MaxClock
    /\ r_clock' = r_clock + 1
    /\ UNCHANGED <<r_running, r_pc, r_frame, r_decoded, r_push, frame_queue, d_pc,
                   d_frame_count, d_last_time, r_res>>

-----------------------------------------------------------------------------
(* Receiver: the side-channel subscriber thread *)

\* a side-channel message as recv_string() and json.loads() see it: text that
\* is not JSON, JSON that is not an object, or an object with or without the
\* keys frame_count and timestamp (a missing key reads as None)
SubMsg(json, has_fc, has_ts, fc, ts) ==
    [json |-> json, has_fc |-> has_fc, has_ts |-> has_ts, fc |-> fc, ts |-> ts]

SubMessages ==
    { SubMsg("invalid", FALSE, FALSE, -1, -1),
      SubMsg("array", FALSE, FALSE, -1, -1),
      SubMsg("object", TRUE, FALSE, 1, -1),
      SubMsg("object", FALSE, TRUE, -1, 0) }
    \cup { SubMsg("object", TRUE, TRUE, fc, 0) : fc \in {1, 2} }

\* a variant of the test that looks at frame_count only
AcceptsFrameCountOnly(m) == m.has_fc
\* if frame_count is not None and timestamp is not None
Accepts(m) == m.has_fc /\ m.has_ts

\* what the body of the try block does with message m: json.loads raises on
\* text that is not JSON, data.get raises on a value that is not an object,
\* an object is stored if the test accepts it
SubOutcome(m) ==
    IF m.json = "invalid" THEN "error"
    ELSE IF m.json # "object" THEN "error"
    ELSE IF Accepts(m) THEN "recorded" ELSE "skipped"

SubInit ==
    /\ sub_pc = "top"          \* the thread is started by __init__
    /\ sub_inbox = <<>>
    /\ sub_hist = <<>>

\* _receive_zmq_messages: while self.running
SubTop ==
    /\ sub_pc = "top"
    /\ sub_pc' = IF r_running THEN "poll" ELSE "done"
    /\ UNCHANGED <<sub_inbox, sub_hist>>
    /\ UNCHANGED storeVars

\* what a poll() does to the loop when the main thread has closed the socket:
\* ZMQError, which the except clause catches, or, the socket being used by two
\* threads at once, an assertion of libzmq that ends the process
PollClosedOutcomes == {"top", "aborted"}

\* _receive_zmq_messages: one pass of the try block.  poll() on a socket that
\* stop() has closed fails; poll() without a message times out; otherwise the
\* message is received and handled
SubPoll ==
    /\ sub_pc = "poll"
    /\ IF r_res.sock # "open" \/ sub_inbox = <<>>
       THEN UNCHANGED <<sub_inbox, sub_hist, storeVars>>
       ELSE LET m == Head(sub_inbox)
                o == SubOutcome(m)
            IN /\ sub_inbox' = Tail(sub_inbox)
               /\ sub_hist' = LastTwo(Append(sub_hist, [msg |-> m, outcome |-> o]))
               /\ IF o = "recorded" THEN Record(m.fc, m.ts)
                  ELSE UNCHANGED <<frame_timestamps, latency_values, all_latencies,
                                   last_call, evicted_keys>>
               /\ UNCHANGED ncalls
    /\ IF r_res.sock # "open" THEN sub_pc' \in PollClosedOutcomes
       ELSE sub_pc' = "top"

\* a message of some publisher reaches the SUB socket
SubArrive ==
    /\ r_res.sock = "open"
    /\ Len(sub_inbox) < MaxInbox
    /\ \E m \in SubMessages : sub_inbox' = Append(sub_inbox, m)
    /\ UNCHANGED <<sub_pc, sub_hist>>
    /\ UNCHANGED storeVars

-----------------------------------------------------------------------------
(* Recorder: StreamRecorder *)

\* the recorder after __init__: running = False, sock = None, ffmpeg_process = None
RecorderInit ==
    [pc |-> "idle", running |-> FALSE, sock |-> "none", ffmpeg |-> "none",
     stops |-> 0, raised |-> FALSE]

\* the library call of the recorder's stop() that may fail:
\* ffmpeg_process.wait(timeout=5) times out
RecorderFaults == {"rec_wait"}

\* StreamRecorder.stop(): nothing if not running; else running = False, close
\* the socket (errors ignored) and forget it, and if the ffmpeg process has
\* not exited close its stdin (errors ignored) and wait, kill() on a timeout
RecorderStopRes(r, flt) ==
    IF ~r.running THEN [r EXCEPT !.stops = r.stops + 1, !.raised = FALSE]
    ELSE [r EXCEPT !.running = FALSE,
                   !.sock = IF r.sock = "none" THEN "none" ELSE "closed",
                   !.ffmpeg = IF r.ffmpeg = "running"
                              THEN (IF "rec_wait" \in flt THEN "killed" ELSE "finished")
                              ELSE r.ffmpeg,
                   !.stops = r.stops + 1,
                   !.raised = FALSE]

\* start(): running = True, set up the socket (start returns False if neither
\* bind works), launch ffmpeg and the two threads, enter the monitor loop
RecorderStart ==
    /\ rec.pc = "idle"
    /\ \E bound \in BOOLEAN :
         rec' = IF bound
                THEN [rec EXCEPT !.running = TRUE, !.sock = "open",
                                 !.ffmpeg = "running", !.pc = "monitor"]
                ELSE [rec EXCEPT !.running = TRUE, !.sock = "unbound", !.pc = "failed"]

\* the ffmpeg process of the recorder exits by itself
RecorderFfmpegExit ==
    /\ rec.pc = "monitor"
    /\ rec.ffmpeg = "running"
    /\ rec' = [rec EXCEPT !.ffmpeg = "exited"]

\* _receive_and_pipe: the write of a packet to ffmpeg's stdin raises
\* BrokenPipeError, the process having ended between the poll() and the
\* write: running = False; break
RecorderBrokenPipe ==
    /\ rec.pc = "monitor"
    /\ rec.running
    /\ rec.ffmpeg = "exited"
    /\ rec' = [rec EXCEPT !.running = FALSE]

\* the monitor loop of start() finds the process gone or the flag cleared in
\* its loop condition, or the process gone after the sleep, where it clears
\* running first; the finally clause calls stop()
RecorderMonitorExit ==
    /\ rec.pc = "monitor"
    /\ rec.ffmpeg = "exited"
    /\ \E after_sleep \in BOOLEAN :
         rec' = [RecorderStopRes([rec EXCEPT !.running = rec.running /\ ~after_sleep],
                                 faults)
                   EXCEPT !.pc = "stopped"]

\* KeyboardInterrupt in the monitor loop: the finally clause calls stop()
RecorderInterrupt ==
    /\ rec.pc = "monitor"
    /\ rec' = [RecorderStopRes(rec, faults) EXCEPT !.pc = "stopped"]

\* main(): finally: recorder.stop(), after start() has returned
RecorderMainFinally ==
    /\ rec.pc \in {"stopped", "failed"}
    /\ rec' = [RecorderStopRes(rec, faults) EXCEPT !.pc = "exited"]

\* every library call that may fail
AllFaults == SenderFaults \cup ReceiverFaults \cup RecorderFaults

\* the subscriber thread and the recorder after construction, in a run in
\* which no library call fails and no side-channel message is lost
SideInit ==
    /\ SubInit
    /\ rec = RecorderInit
    /\ faults = {}
    /\ lossy = {}

-----------------------------------------------------------------------------
(* The transport reader and the render loop around the frame queue *)

InitQueue == SenderInit /\ StoreInitEmpty /\ RecvInit /\ SideInit

NextQueue ==
    \/ ReceiverStart /\ UNCHANGED <<senderVars, sideVars>>
    \/ ReaderTop /\ UNCHANGED <<senderVars, sideVars>>
    \/ ReaderRead /\ UNCHANGED <<senderVars, sideVars>>
    \/ ReaderCheckFull /\ UNCHANGED <<senderVars, sideVars>>
    \/ ReaderPut /\ UNCHANGED <<senderVars, sideVars>>
    \/ DisplayGet /\ UNCHANGED <<senderVars, sideVars>>
    \/ DisplayStop /\ UNCHANGED <<senderVars, sideVars>>
    \/ RecvTick /\ UNCHANGED <<senderVars, storeVars, sideVars>>

SpecQueue == InitQueue /\ [][NextQueue]_vars

\* C9: the frame queue never holds more than 10 frames, and a push the reader
\* attempts while 10 frames are queued drops the frame and leaves the queue as
\* it was
C9_QueueBounded ==
    /\ [](Len(frame_queue) <= 10)
    /\ [][(r_pc = "check_full" /\ r_pc' # r_pc /\ Len(frame_queue) = 10)
          => (/\ frame_queue' = frame_queue
              /\ r_push' = "dropped"
              /\ r_pc' = "top")]_vars

\* the reader has just dropped a frame at a queue of 10
C9_Witness ==
    /\ r_push = "dropped"
    /\ r_pc = "top"
    /\ Len(frame_queue) = 10

\* C10: the reader is never inside put() with the queue full, so put() never
\* waits, whatever the render loop does in between or after it has stopped
C10_PutNeverWaits ==
    r_pc = "put" => (Len(frame_queue) < 10 /\ ~PutWaits(frame_queue))

\* the reader is about to insert the tenth frame after the render loop has stopped
C10_Witness ==
    /\ r_pc = "put"
    /\ Len(frame_queue) = 9
    /\ d_pc = "stopped"

-----------------------------------------------------------------------------
(* The sender loop, and the receiver's decode of what it wrote *)

InitCodec == SenderInit /\ StoreInitEmpty /\ RecvInit /\ SideInit

NextCodec ==
    \/ SenderTick /\ UNCHANGED <<storeVars, recvVars, sideVars>>
    \/ SenderStart /\ UNCHANGED <<storeVars, recvVars, sideVars>>
    \/ SenderCapture /\ UNCHANGED <<storeVars, recvVars, sideVars>>
    \/ SenderProcessFrame /\ UNCHANGED <<storeVars, recvVars, sideVars>>
    \/ SenderCalculateFps /\ UNCHANGED <<storeVars, recvVars, sideVars>>
    \/ SenderWrite /\ UNCHANGED <<storeVars, recvVars, sideVars>>
    \/ SenderStop /\ UNCHANGED <<storeVars, recvVars, sideVars>>
    \/ SenderMainFinally /\ UNCHANGED <<storeVars, recvVars, sideVars>>
    \/ DecodeWritten /\ UNCHANGED sideVars

SpecCodec == InitCodec /\ [][NextCodec]_vars

\* the frame is at least as large as the bounding box of the region map
FitsRegionMap == cfg_dims[1] >= 3 * CellSide /\ cfg_dims[2] >= 2 * CellSide

\* the pixels of a slice in a frame of the configured size
CellPixels(rect) == SliceOf(cfg_dims[1], cfg_dims[2], rect)

\* C1: on a frame that holds the whole region map, the receiver's decode of a
\* frame the sender has just painted with counter c, no pixel changed, yields c;
\* the sender's and the receiver's cell i are the same pixels, and two
\* different cells share no pixel
C1_RoundTrip ==
    FitsRegionMap =>
      /\ r_decoded.intact => r_decoded.ok /\ r_decoded.counter = r_decoded.painted
      /\ \A i \in Bits : /\ CellPixels(EncCell(i)) = CellPixels(DecCell(i))
                         /\ CellPixels(EncCell(i)) # {}
      /\ \A i, j \in Bits :
            i # j => CellPixels(EncCell(i)) \cap CellPixels(EncCell(j)) = {}

\* the receiver has decoded the highest counter value from an untouched frame
C1_Witness ==
    /\ FitsRegionMap
    /\ r_decoded.intact
    /\ r_decoded.painted = FingerprintModulus - 1
    /\ r_decoded.counter = FingerprintModulus - 1

\* C2: two consecutive frames written to the transport carry fingerprints f and
\* g with g = (f + 1) mod 32
C2_ConsecutiveFingerprints ==
    Len(written) = 2 => written[2] = (written[1] + 1) % FingerprintModulus

-----------------------------------------------------------------------------
(* The correlation store under arbitrary Record and Correlate calls *)

\* the fingerprints and send timestamps the calls are made with
CallKeys == {0, 1, MaxEntries + 1}
CallTimestamps == {0, 2 * MaxEntries}

\* a store of n entries with keys 1 .. n, timestamps rising or falling with the key
FilledStore(n, rising) == [k \in 1 .. n |-> IF rising THEN k ELSE n + 1 - k]

\* a latency window after m hits
FilledWindow(m) == [i \in 1 .. m |-> i * MsPerSecond]

\* stores and windows the calculator can hold after some run of calls
StoreStart ==
    { [store |-> FilledStore(0, TRUE), window |-> FilledWindow(0)],
      [store |-> FilledStore(MaxEntries - 1, TRUE),
       window |-> FilledWindow(LatencyMaxlen - 1)],
      [store |-> FilledStore(MaxEntries, FALSE),
       window |-> FilledWindow(LatencyMaxlen - 1)],
      [store |-> FilledStore(MaxEntries, TRUE), window |-> FilledWindow(0)] }

StoreInitAny ==
    /\ \E s \in StoreStart :
         /\ frame_timestamps = s.store
         /\ latency_values = s.window
         /\ all_latencies = s.window
    /\ last_call = NoCall
    /\ evicted_keys = {}
    /\ ncalls = 0

InitStore ==
    /\ StoreInitAny
    /\ RecvInit
    /\ SenderInit
    /\ SideInit
    /\ cfg_dims = <<3 * CellSide + 1, 2 * CellSide + 1>>

\* the subscriber passes a (frame_count, timestamp) message to Record
RecordCall ==
    /\ ncalls < MaxCalls
    /\ \E fc \in CallKeys, ts \in CallTimestamps : Record(fc, ts)
    /\ ncalls' = ncalls + 1
    /\ UNCHANGED <<senderVars, recvVars, sideVars>>

\* a frame is decoded to some counter and Correlate is called with it
CorrelateCall ==
    /\ ncalls < MaxCalls
    /\ \E fc \in CallKeys : Correlate(fc, r_clock)
    /\ ncalls' = ncalls + 1
    /\ UNCHANGED <<senderVars, recvVars, sideVars>>

NextStore ==
    \/ RecordCall
    \/ CorrelateCall
    \/ RecvTick /\ UNCHANGED <<senderVars, storeVars, sideVars>>

SpecStore == InitStore /\ [][NextStore]_vars

StoreSize == Cardinality(DOMAIN frame_timestamps)

\* C3: after any Record call the store holds at most 100 entries
C3_StoreBounded == StoreSize <= 100

\* a Record call on a full store has removed an entry and left 100
C3_Witness ==
    /\ last_call.op = "Record"
    /\ last_call.evicted # {}
    /\ StoreSize = 100

\* C4: the entry a Record call removes has the smallest timestamp of all
\* entries (the remaining 100 and the removed one), and 100 entries remain
C4_EvictsSmallestTimestamp ==
    (last_call.op = "Record" /\ last_call.evicted # {}) =>
        /\ StoreSize = 100
        /\ \A t \in last_call.evicted_ts :
             \A k \in DOMAIN frame_timestamps : t <= frame_timestamps[k]

\* C5: a Correlate(f, now) that directly follows Record(f, t) finds the entry
\* and returns latency (now - t) * 1000
C5_CorrelateAfterRecord ==
    [][(/\ last_call.op = "Record"
        /\ ncalls' # ncalls
        /\ last_call'.op = "Correlate"
        /\ last_call'.frame_count = last_call.frame_count)
       => (/\ last_call'.hit
           /\ last_call'.latency = (last_call'.arg - last_call.arg) * 1000)]_vars

WindowMean(q) == <<SumSeq(q), Len(q)>>

\* C6: a Correlate call on a fingerprint that is not in the store returns no
\* data and leaves the latency window, its mean and the store as they were
C6_MissChangesNothing ==
    [][(/\ ncalls' # ncalls
        /\ last_call'.op = "Correlate"
        /\ last_call'.frame_count \notin DOMAIN frame_timestamps)
       => (/\ ~last_call'.hit
           /\ latency_values' = latency_values
           /\ WindowMean(latency_values') = WindowMean(latency_values)
           /\ frame_timestamps' = frame_timestamps)]_vars

\* Correlate has just missed on a fingerprint the clean-up had removed, with
\* samples in the window
C6_Witness ==
    /\ last_call.op = "Correlate"
    /\ ~last_call.hit
    /\ last_call.frame_count \in evicted_keys
    /\ latency_values # <<>>

\* C7: no Correlate call changes the fingerprint-to-timestamp map
C7_CorrelateKeepsStore ==
    [][(ncalls' # ncalls /\ last_call'.op = "Correlate")
       => frame_timestamps' = frame_timestamps]_vars

\* the same fingerprint has been correlated twice in a row and is still stored
C7_Witness ==
    /\ last_call.op = "Correlate"
    /\ last_call.hit
    /\ last_call.frame_count \in DOMAIN frame_timestamps
    /\ Len(all_latencies) >= 2
    /\ all_latencies[Len(all_latencies)] = last_call.latency
    /\ all_latencies[Len(all_latencies) - 1] = last_call.latency
    /\ ncalls = 2

LastN(s, n) == SubSeq(s, Len(s) - n + 1, Len(s))
Min(a, b) == IF a <= b THEN a ELSE b

\* C8: after N successful correlations the average a hit returns is the mean
\* of the last min(30, N) samples
C8_WindowMean ==
    (last_call.op = "Correlate" /\ last_call.hit) =>
        LET n == Min(30, Len(all_latencies))
        IN /\ last_call.avg_len = n
           /\ last_call.avg_sum = SumSeq(LastN(all_latencies, n))

\* a hit after more than 30 samples, the oldest of which differs from the newest
C8_Witness ==
    /\ last_call.op = "Correlate"
    /\ last_call.hit
    /\ Len(all_latencies) > 30
    /\ all_latencies[1] # last_call.latency

-----------------------------------------------------------------------------
(* The receiver's decode of frames as the decoder delivers them *)

\* what a cell of a delivered frame may hold after lossy coding: every byte 0,
\* every byte 128, bytes of 128 with a single 129, every byte 129, every byte 255
CellFills == {"black", "at", "above", "next", "white"}

\* the byte of pixel p in a cell with corner <<r0, c0>> that holds fill k
FillByte(k, p, r0, c0) ==
    CASE k = "black" -> 0
      [] k = "at"    -> Threshold
      [] k = "above" -> IF p = <<r0, c0, 0>> THEN Threshold + 1 ELSE Threshold
      [] k = "next"  -> Threshold + 1
      [] k = "white" -> White

\* a frame whose cell i holds fill fl[i], black elsewhere
DeliveredFrame(h, w, fl) ==
    [h |-> h, w |-> w,
     px |-> [p \in (0 .. h - 1) \X (0 .. w - 1) \X Channels |->
                IF \E i \in Bits : InSlice(p, DecCell(i))
                THEN LET i == CHOOSE j \in Bits : InSlice(p, DecCell(j))
                     IN FillByte(fl[i], p, DecCell(i)[1], DecCell(i)[3])
                ELSE 0]]

\* the reader thread holds a frame it has just read from the decoder
InitDecode ==
    /\ SenderInit
    /\ StoreInitEmpty
    /\ r_running = TRUE
    /\ r_pc = "read"
    /\ r_frame \in { DeliveredFrame(cfg_dims[1], cfg_dims[2], fl) :
                       fl \in [Bits -> CellFills] }
    /\ r_decoded = NoDecode
    /\ r_push = "none"
    /\ frame_queue = <<>>
    /\ d_pc = "get"
    /\ d_frame_count = 0
    /\ d_last_time = 0
    /\ r_clock = 0
    /\ r_res = [ReceiverResInit EXCEPT !.ffmpeg = "running", !.windows = "open"]
    /\ SideInit

\* frame = self.process_frame(frame) in _read_frames, on the frame just read
ProcessDelivered ==
    /\ r_pc = "read"
    /\ r_frame # NoFrame
    /\ r_decoded = NoDecode
    /\ RecvProcessFrame(r_frame, -1, FALSE)
    /\ UNCHANGED <<r_running, r_pc, r_frame, r_push, frame_queue, d_pc, d_frame_count,
                   d_last_time, r_clock, r_res>>
    /\ UNCHANGED <<senderVars, sideVars>>

NextDecode == ProcessDelivered

SpecDecode == InitDecode /\ [][NextDecode]_vars

\* C11: the decoded counter has bit i set exactly when the mean of cell i of
\* the decoded frame is above 128 (the sum of its bytes above 128 times their
\* number), also when that mean lies strictly between 128 and 129
C11_BitIffMeanAboveThreshold ==
    r_decoded.ok =>
        \A i \in Bits :
            LET cell == Slice(r_frame, DecCell(i))
            IN (BitOf(r_decoded.counter, i) = 1)
                   <=> (SumOver(r_frame.px, cell) > 128 * Cardinality(cell))

-----------------------------------------------------------------------------
(* The sender's loop iteration step by step (SpecCodec) *)

\* the steps of the current iteration include one named ev
LogHas(ev) == \E k \in DOMAIN s_log : s_log[k].ev = ev

\* C12: when the publish of an iteration raises, process_frame still returns
\* with the counter advanced once and painted on the frame, the loop goes on
\* running to calculate_fps, and a frame written after it is that frame with
\* that counter
C12_PublishFailureKeepsMediaPath ==
    /\ [][(s_pc = "process" /\ Len(s_log') = 3 /\ s_log'[3].ev = "publish_failed")
          => (/\ s_pc' = "fps"
              /\ s_running'
              /\ s_frame_count' = (s_frame_count + 1) % 32
              /\ s_painted' = s_frame_count'
              /\ s_frame' = Encode(s_frame, s_frame_count')
              /\ wire' = wire)]_vars
    /\ []((LogHas("publish_failed") /\ LogHas("write"))
          => (/\ written # <<>>
              /\ written[Len(written)] = s_log[2].n
              /\ wire # NoWire => wire.painted = s_log[2].n))

\* a frame has been written in an iteration whose publish failed, it carries
\* the counter of that iteration, and the loop is running
C12_Witness ==
    /\ s_pc = "capture"
    /\ s_running
    /\ FitsRegionMap
    /\ LogHas("publish_failed")
    /\ LogHas("write")
    /\ wire # NoWire
    /\ Decode(wire.frame).counter = s_log[1].n

\* C18: with a frame size smaller than the region map nothing is ever painted
\* or written and the receiver never decodes such a frame
C18_UndersizedFrameRejected ==
    ~FitsRegionMap => (/\ s_painted = -1
                       /\ written = <<>>
                       /\ wire = NoWire
                       /\ r_decoded = NoDecode)

\* the steps of an iteration come in the order advance, paint, one publish
\* attempt, write, all with the same counter, and the frame written carries it
WrittenAfterSteps ==
    /\ Len(s_log) <= 4
    /\ (s_log # <<>> /\ s_log[1].ev # "interrupt") =>
          /\ Len(s_log) >= 3
          /\ s_log[1].ev = "advance"
          /\ s_log[2] = Step("paint", s_log[1].n)
          /\ s_log[3].ev \in {"publish", "publish_failed"}
          /\ s_log[3].n = s_log[2].n
          /\ s_painted = s_log[2].n
    /\ \A k \in DOMAIN s_log :
          s_log[k].ev \in {"write", "write_failed"} => k = 4
    /\ LogHas("write") =>
          /\ s_log[4].n = s_log[2].n
          /\ written # <<>> /\ written[Len(written)] = s_log[2].n
          /\ wire # NoWire => wire.painted = s_log[2].n
    /\ LogHas("publish") => zmq_out.frame_count = s_log[2].n
    /\ LogHas("publish_failed") => zmq_out = NoMsg

\* the loop has been left in an iteration that published a message and wrote
\* no frame
PublishedUnwritten ==
    /\ s_pc \in {"stopped", "exited"}
    /\ LogHas("publish")
    /\ ~LogHas("write")

\* C19 (as stated): every frame written was, in the same iteration, counted,
\* painted and announced by one publish attempt with the painted counter, in
\* this order, and a message is published for a frame that is not written
\* only when the write itself fails
C19_PublishedOnlyForWritten ==
    /\ WrittenAfterSteps
    /\ PublishedUnwritten => LogHas("write_failed")

\* C19 (amended): as stated, except that a message is published for a frame
\* that is not written also when the loop is interrupted between the publish
\* and the write
C19_StepsInOrder ==
    /\ WrittenAfterSteps
    /\ PublishedUnwritten => (LogHas("write_failed") \/ s_log[4].ev = "interrupt")

\* an iteration has advanced, painted, published and written one frame
C19_Witness ==
    /\ s_pc = "capture"
    /\ Len(s_log) = 4
    /\ s_log[3].ev = "publish"
    /\ s_log[4].ev = "write"
    /\ zmq_out.frame_count = wire.painted

-----------------------------------------------------------------------------
(* The subscriber thread beside start() and stop() *)

InitSub == SenderInit /\ StoreInitEmpty /\ RecvInit /\ SideInit

NextSub ==
    \/ ReceiverStart /\ UNCHANGED <<senderVars, sideVars>>
    \/ DisplayStop /\ UNCHANGED <<senderVars, sideVars>>
    \/ SubTop /\ UNCHANGED <<senderVars, recvVars, rec, faults, lossy>>
    \/ SubPoll /\ UNCHANGED <<senderVars, recvVars, rec, faults, lossy>>
    \/ SubArrive /\ UNCHANGED <<senderVars, recvVars, rec, faults, lossy>>

SpecSub == InitSub /\ [][NextSub]_vars

\* a message that parses to an object holding frame_count and timestamp
WellFormed(m) == m.json = "object" /\ m.has_fc /\ m.has_ts

\* C13: when the subscriber loop takes a message from the socket, it returns to
\* the head of its loop with the running flag as it was; a malformed message
\* (not JSON, not an object, or lacking frame_count or timestamp) leaves the
\* correlation store and the latency window as they were, and a well-formed
\* one, also one that follows a malformed one, is in the store afterwards
C13_MalformedDropped ==
    [][(sub_pc = "poll" /\ sub_inbox # <<>> /\ sub_inbox' = Tail(sub_inbox))
       => LET m == Head(sub_inbox)
          IN /\ sub_pc' = "top"
             /\ r_running' = r_running
             /\ IF WellFormed(m)
                THEN /\ m.fc \in DOMAIN frame_timestamps'
                     /\ frame_timestamps'[m.fc] = m.ts
                ELSE /\ frame_timestamps' = frame_timestamps
                     /\ latency_values' = latency_values]_vars

\* the loop has dropped a malformed message, then recorded a well-formed one,
\* and is still running
C13_Witness ==
    /\ Len(sub_hist) = 2
    /\ ~WellFormed(sub_hist[1].msg)
    /\ sub_hist[1].outcome # "recorded"
    /\ WellFormed(sub_hist[2].msg)
    /\ sub_hist[2].msg.fc \in DOMAIN frame_timestamps
    /\ frame_timestamps[sub_hist[2].msg.fc] = sub_hist[2].msg.ts
    /\ sub_pc = "top"
    /\ r_running

-----------------------------------------------------------------------------
(* start and stop of the three programs, with library calls that may fail *)

\* a caller runs stop() of the receiver once more after it has returned or raised
ReceiverStopAgain ==
    /\ d_pc = "stopped"
    /\ r_res.stops = 1
    /\ ReceiverStopEffect
    /\ UNCHANGED <<r_pc, r_frame, r_decoded, r_push, frame_queue, d_frame_count,
                   d_last_time, r_clock>>
    /\ UNCHANGED storeVars

InitStop ==
    /\ SenderInit
    /\ cfg_dims = <<3 * CellSide + 1, 2 * CellSide + 1>>
    /\ StoreInitEmpty
    /\ RecvInit
    /\ SubInit
    /\ rec = RecorderInit
    /\ faults \in SUBSET AllFaults
    /\ lossy = {}

NextStop ==
    \/ SenderStart /\ UNCHANGED <<storeVars, recvVars, sideVars>>
    \/ SenderStop /\ UNCHANGED <<storeVars, recvVars, sideVars>>
    \/ SenderMainFinally /\ UNCHANGED <<storeVars, recvVars, sideVars>>
    \/ ReceiverStart /\ UNCHANGED <<senderVars, sideVars>>
    \/ DisplayStop /\ UNCHANGED <<senderVars, sideVars>>
    \/ ReceiverStopAgain /\ UNCHANGED <<senderVars, sideVars>>
    \/ RecorderStart /\ UNCHANGED <<senderVars, storeVars, recvVars, subVars, faults, lossy>>
    \/ RecorderFfmpegExit
         /\ UNCHANGED <<senderVars, storeVars, recvVars, subVars, faults, lossy>>
    \/ RecorderBrokenPipe
         /\ UNCHANGED <<senderVars, storeVars, recvVars, subVars, faults, lossy>>
    \/ RecorderMonitorExit
         /\ UNCHANGED <<senderVars, storeVars, recvVars, subVars, faults, lossy>>
    \/ RecorderInterrupt
         /\ UNCHANGED <<senderVars, storeVars, recvVars, subVars, faults, lossy>>
    \/ RecorderMainFinally
         /\ UNCHANGED <<senderVars, storeVars, recvVars, subVars, faults, lossy>>

SpecStop == InitStop /\ [][NextStop]_vars

\* C14: a call of stop() that follows a call of stop() which returned without
\* an error raises no error and leaves every resource as that call left it, in
\* the sender, in the receiver and in the recorder
C14_StopIdempotent ==
    /\ [][(s_res.stops >= 1 /\ ~s_res.raised /\ s_res'.stops = s_res.stops + 1)
          => (/\ ~s_res'.raised
              /\ s_res' = [s_res EXCEPT !.stops = s_res.stops + 1]
              /\ s_running' = FALSE)]_vars
    /\ [][(r_res.stops >= 1 /\ ~r_res.raised /\ r_res'.stops = r_res.stops + 1)
          => (/\ ~r_res'.raised
              /\ r_res' = [r_res EXCEPT !.stops = r_res.stops + 1]
              /\ r_running' = FALSE)]_vars
    /\ [][(rec.stops >= 1 /\ ~rec.raised /\ rec'.stops = rec.stops + 1)
          => (/\ ~rec'.raised
              /\ [rec' EXCEPT !.pc = rec.pc] = [rec EXCEPT !.stops = rec.stops + 1]
              /\ ~rec'.running)]_vars

\* each of the three has run stop() twice without an error and holds its
\* resources released
C14_Witness ==
    /\ s_res.stops = 2 /\ ~s_res.raised
    /\ s_res.sock = "closed" /\ s_res.ctx = "terminated"
    /\ s_res.cap = "released" /\ s_res.ffmpeg = "terminated"
    /\ r_res.stops = 2 /\ ~r_res.raised
    /\ r_res.sock = "closed" /\ r_res.ctx = "terminated"
    /\ r_res.ffmpeg = "terminated" /\ r_res.windows = "destroyed"
    /\ rec.stops = 2 /\ ~rec.raised
    /\ rec.sock = "closed" /\ rec.ffmpeg = "finished"

\* C15: once stop() of the receiver has run, the decoder process is terminated
\* and the windows are destroyed, also when closing the socket or terminating
\* the context raised
C15_StopReleasesEverything ==
    r_res.stops >= 1 => (/\ r_res.ffmpeg \in {"terminated", "killed"}
                         /\ r_res.windows = "destroyed")

-----------------------------------------------------------------------------
(* The receiver from start to stop, with a decoder process that may exit and
   library calls that may fail *)

\* the decoder process (ffmpeg) of the receiver exits by itself
DecoderExit ==
    /\ r_res.ffmpeg = "running"
    /\ r_res' = [r_res EXCEPT !.ffmpeg = "exited"]
    /\ UNCHANGED <<r_running, r_pc, r_frame, r_decoded, r_push, frame_queue, d_pc,
                   d_frame_count, d_last_time, r_clock>>
    /\ UNCHANGED storeVars

InitRecv ==
    /\ SenderInit
    /\ cfg_dims = <<3 * CellSide + 1, 2 * CellSide + 1>>
    /\ StoreInitEmpty
    /\ RecvInit
    /\ SubInit
    /\ rec = RecorderInit
    /\ faults \in SUBSET ReceiverFaults
    /\ lossy = {}

ReaderSteps ==
    \/ ReaderTop
    \/ ReaderRead
    \/ ReaderCheckFull
    \/ ReaderPut

NextRecv ==
    \/ ReceiverStart /\ UNCHANGED <<senderVars, sideVars>>
    \/ ReaderTop /\ UNCHANGED <<senderVars, sideVars>>
    \/ ReaderRead /\ UNCHANGED <<senderVars, sideVars>>
    \/ ReaderCheckFull /\ UNCHANGED <<senderVars, sideVars>>
    \/ ReaderPut /\ UNCHANGED <<senderVars, sideVars>>
    \/ DisplayGet /\ UNCHANGED <<senderVars, sideVars>>
    \/ DisplayStop /\ UNCHANGED <<senderVars, sideVars>>
    \/ DecoderExit /\ UNCHANGED <<senderVars, sideVars>>
    \/ RecvTick /\ UNCHANGED <<senderVars, storeVars, sideVars>>

SpecRecv == InitRecv /\ [][NextRecv]_vars

\* a run in which no library call fails
InitRecvFair == InitRecv /\ faults = {}

\* the same, with both threads of the receiver scheduled again and again: the
\* reader thread and the render loop each take their next step if it stays
\* possible.  Nothing obliges the user to press the quit key or to interrupt.
SpecRecvFair ==
    /\ InitRecvFair
    /\ [][NextRecv]_vars
    /\ WF_vars(ReceiverStart /\ UNCHANGED <<senderVars, sideVars>>)
    /\ WF_vars(ReaderSteps /\ UNCHANGED <<senderVars, sideVars>>)
    /\ WF_vars(DisplayGet /\ UNCHANGED <<senderVars, sideVars>>)

\* resource a was released before resource b
ReleasedBefore(a, b) ==
    \E i, j \in DOMAIN r_res.log :
        i < j /\ r_res.log[i] = a /\ r_res.log[j] = b

ReleasedAtAll(a) == \E i \in DOMAIN r_res.log : r_res.log[i] = a

\* C16 (as stated): the receiver's stop closes the transport handle (the
\* decoder process) first, the side-channel socket second, and destroys the
\* windows only after both
C16_TransportFirst ==
    /\ ReleasedAtAll("sock") => ReleasedBefore("ffmpeg", "sock")
    /\ ReleasedAtAll("windows") =>
          ReleasedBefore("ffmpeg", "windows") /\ ReleasedBefore("sock", "windows")

\* C16 (amended): the receiver's stop closes the side-channel socket and its
\* context first, the transport handle (the decoder process) second, and
\* destroys the windows only after both
C16_SocketFirst ==
    /\ ReleasedAtAll("ffmpeg") =>
          ReleasedBefore("sock", "ffmpeg") /\ ReleasedBefore("ctx", "ffmpeg")
    /\ ReleasedAtAll("windows") =>
          ReleasedBefore("ffmpeg", "windows") /\ ReleasedBefore("sock", "windows")
    /\ d_pc = "stopped" <=> r_res.stops >= 1

\* the render loop has shown a frame and stop has released all four resources
C16_Witness ==
    /\ d_pc = "stopped"
    /\ r_res.log = <<"sock", "ctx", "ffmpeg", "windows">>
    /\ r_res.windows = "destroyed"
    /\ r_push = "pushed"

\* C17: once the decoder process has exited while the receiver is running, the
\* reader loop eventually ends and the receiver eventually is stopped
C17_ProcessExitStopsReceiver ==
    (r_res.ffmpeg = "exited" /\ r_running)
        ~> (r_pc = "done" /\ ~r_running /\ d_pc = "stopped")

-----------------------------------------------------------------------------
(* The reader thread and the render loop with a timestamp in the store *)

\* the counter the decoder's frame decodes to
DeliveredCounter == FingerprintModulus - 1

\* a running receiver that has read and queued MaxQueued frames while the
\* store was empty, and whose subscriber has then recorded the timestamp 0
\* for the counter these frames carry
InitCorr ==
    /\ SenderInit
    /\ cfg_dims = <<3 * CellSide + 1, 2 * CellSide + 1>>
    /\ frame_timestamps = [k \in {DeliveredCounter} |-> 0]
    /\ latency_values = <<>>
    /\ all_latencies = <<>>
    /\ last_call = [NoCall EXCEPT !.op = "Record", !.frame_count = DeliveredCounter,
                        !.arg = 0]
    /\ evicted_keys = {}
    /\ ncalls = 0
    /\ r_running = TRUE
    /\ r_pc = "top"
    /\ r_frame = NoFrame
    /\ r_decoded = [ok |-> TRUE, counter |-> DeliveredCounter, painted |-> -1,
                    intact |-> FALSE]
    /\ r_push = "pushed"
    /\ frame_queue = [i \in 1 .. QueueMaxsize - 1 |->
                        UniformFrame(cfg_dims[1], cfg_dims[2], White)]
    /\ d_pc = "get"
    /\ d_frame_count = 0
    /\ d_last_time = 0
    /\ r_clock = 0
    /\ r_res = [ReceiverResInit EXCEPT !.ffmpeg = "running", !.windows = "open"]
    /\ sub_pc = "top"
    /\ sub_inbox = <<>>
    /\ sub_hist = <<[msg |-> SubMsg("object", TRUE, TRUE, DeliveredCounter, 0),
                     outcome |-> "recorded"]>>
    /\ rec = RecorderInit
    /\ faults = {}
    /\ lossy = {}

NextCorr ==
    \/ ReaderTop /\ UNCHANGED <<senderVars, sideVars>>
    \/ ReaderRead /\ Len(all_latencies) < MaxSamples /\ UNCHANGED <<senderVars, sideVars>>
    \/ ReaderCheckFull /\ UNCHANGED <<senderVars, sideVars>>
    \/ ReaderPut /\ UNCHANGED <<senderVars, sideVars>>
    \/ DisplayGet /\ UNCHANGED <<senderVars, sideVars>>
    \/ DisplayStop /\ UNCHANGED <<senderVars, sideVars>>
    \/ RecvTick /\ UNCHANGED <<senderVars, storeVars, sideVars>>

SpecCorr == InitCorr /\ [][NextCorr]_vars

\* C20: a latency sample is appended only by a step of the render loop that
\* has popped a frame from the queue, never by a step of the reader thread, and
\* the frame the reader has just dropped at a full queue has produced no sample
C20_SamplesOnlyForPoppedFrames ==
    /\ [][Len(all_latencies') > Len(all_latencies)
          => (r_pc' = r_pc /\ Len(frame_queue') < Len(frame_queue))]_vars
    /\ []((r_push = "dropped" /\ r_pc = "top") => ~last_call.hit)

-----------------------------------------------------------------------------
(* The subscriber thread, scheduled again and again *)

\* SpecSub with the main thread going on to start() and the subscriber thread
\* taking its next step if it stays possible.  Nothing obliges a publisher to
\* send, nor the user to stop the receiver.
SpecSubFair ==
    /\ InitSub
    /\ [][NextSub]_vars
    /\ WF_vars(ReceiverStart /\ UNCHANGED <<senderVars, sideVars>>)
    /\ WF_vars(SubTop /\ UNCHANGED <<senderVars, recvVars, rec, faults, lossy>>)
    /\ WF_vars(SubPoll /\ UNCHANGED <<senderVars, recvVars, rec, faults, lossy>>)

\* C21: while the receiver is running the subscriber loop has not ended, and
\* a well-formed message that waits on the subscriber socket while the
\* receiver is running is eventually taken from the socket and recorded, or
\* the receiver is stopped first, however the subscriber thread started by
\* the constructor is scheduled relative to start()
C21_SubscriberAliveWhileRunning ==
    /\ [](r_running => sub_pc # "done")
    /\ (r_running /\ sub_inbox # <<>> /\ WellFormed(Head(sub_inbox)))
          ~> (\/ ~r_running
              \/ /\ sub_inbox = <<>>
                 /\ sub_hist # <<>>
                 /\ sub_hist[Len(sub_hist)].outcome = "recorded")

-----------------------------------------------------------------------------
(* The receiver's three loops from start() to stop(), with library calls that
   may fail *)

InitShut ==
    /\ SenderInit
    /\ cfg_dims = <<3 * CellSide + 1, 2 * CellSide + 1>>
    /\ StoreInitEmpty
    /\ RecvInit
    /\ SubInit
    /\ rec = RecorderInit
    /\ faults \in SUBSET ReceiverFaults
    /\ lossy = {}

NextShut ==
    \/ ReceiverStart /\ UNCHANGED <<senderVars, sideVars>>
    \/ ReaderTop /\ UNCHANGED <<senderVars, sideVars>>
    \/ ReaderRead /\ UNCHANGED <<senderVars, sideVars>>
    \/ ReaderCheckFull /\ UNCHANGED <<senderVars, sideVars>>
    \/ ReaderPut /\ UNCHANGED <<senderVars, sideVars>>
    \/ DisplayStop /\ UNCHANGED <<senderVars, sideVars>>
    \/ SubTop /\ UNCHANGED <<senderVars, recvVars, rec, faults, lossy>>
    \/ SubPoll /\ UNCHANGED <<senderVars, recvVars, rec, faults, lossy>>

SpecShut == InitShut /\ [][NextShut]_vars

\* stdout.read(frame_size) returns once the decoder process has ended; while
\* the process lives the call waits for a whole frame, with no timeout
ReaderReadReturns == r_res.ffmpeg # "running" /\ ReaderRead

\* the same, with every thread taking its next step if it stays possible; the
\* read of the transport pipe is only certain to return once the decoder
\* process has ended.  Nothing obliges the decoder to deliver a frame.
SpecShutFair ==
    /\ InitShut
    /\ [][NextShut]_vars
    /\ WF_vars(ReceiverStart /\ UNCHANGED <<senderVars, sideVars>>)
    /\ WF_vars(ReaderTop /\ UNCHANGED <<senderVars, sideVars>>)
    /\ WF_vars(ReaderReadReturns /\ UNCHANGED <<senderVars, sideVars>>)
    /\ WF_vars(ReaderCheckFull /\ UNCHANGED <<senderVars, sideVars>>)
    /\ WF_vars(ReaderPut /\ UNCHANGED <<senderVars, sideVars>>)
    /\ WF_vars(SubTop /\ UNCHANGED <<senderVars, recvVars, rec, faults, lossy>>)
    /\ WF_vars(SubPoll /\ UNCHANGED <<senderVars, recvVars, rec, faults, lossy>>)

C23_NoUseAfterRelease ==
    /\ [][(sub_pc = "poll" /\ sub_pc' # "poll") => r_res.sock = "open"]_vars
    /\ [][(r_pc = "read" /\ r_pc' # "read")
          => r_res.ffmpeg \notin {"terminated", "killed"}]_vars

-----------------------------------------------------------------------------
(* Errors in the sender loop (SpecCodec) *)

\* C24: a write of a frame to the encoder's pipe that fails while the encoder
\* process is alive leaves the sender loop running, at the head of its next
\* iteration, with every resource as it was
C24_WriteErrorIsTransient ==
    [][(/\ s_pc = "write"
        /\ s_res.ffmpeg = "running"
        /\ s_log' # s_log
        /\ s_log'[Len(s_log')].ev = "write_failed")
       => (/\ s_running'
           /\ s_pc' = "capture"
           /\ s_res' = s_res)]_vars

-----------------------------------------------------------------------------
(* The end of a recording (SpecStop) *)

\* C25: once start() of the recorder has called stop(), and again once main()
\* has, the UDP socket is closed and the ffmpeg process is not running,
\* whichever way the recording ended: an interrupt, the process found gone by
\* the monitor loop, or a broken pipe found by the UDP loop
C25_RecorderStopReleases ==
    rec.pc \in {"stopped", "exited"}
        => (rec.sock \notin {"open", "unbound"} /\ rec.ffmpeg # "running")

\* C26: the counter a side divides by the elapsed time grows by exactly one
\* with every frame the side handles, whatever its value (also from 31 on),
\* and is set to zero, together with the start of the interval, by the first
\* frame handled one second or more after the last reset
C26_FrameRateWindow ==
    /\ [][(s_pc = "process" /\ s_pc' = "fps")
          => s_frame_count' = s_frame_count + 1]_vars
    /\ [][(s_pc = "fps" /\ s_pc' = "write")
          => IF s_clock - s_last_fps_print >= 1
             THEN /\ s_frame_count' = 0
                  /\ s_start_time' = s_clock
                  /\ s_last_fps_print' = s_clock
             ELSE /\ s_frame_count' = s_frame_count
                  /\ s_start_time' = s_start_time
                  /\ s_last_fps_print' = s_last_fps_print]_vars
    /\ [][(d_pc = "get" /\ Len(frame_queue') < Len(frame_queue))
          => IF r_clock - d_last_time >= 1
             THEN d_frame_count' = 0 /\ d_last_time' = r_clock
             ELSE d_frame_count' = d_frame_count + 1 /\ d_last_time' = d_last_time]_vars

\* C27: a start() of the sender that fails because the camera does not open
\* returns with the running flag cleared, and the stop() that main() then
\* calls returns without raising, with the side-channel socket closed (unless
\* close() itself fails)
C27_StopSafeAfterFailedStart ==
    /\ s_pc = "failed" => ~s_running
    /\ (s_pc = "exited" /\ s_res.cap = "unopened")
          => /\ ~s_res.raised
             /\ ~s_running
             /\ "s_close" \notin faults => s_res.sock = "closed"

-----------------------------------------------------------------------------
(* Sender and receiver together: the side channel and the transport *)

\* the message of send_string as recv_string() and json.loads() see it
WireMessage(m) == SubMsg("object", TRUE, TRUE, m.frame_count, m.timestamp)

\* process_frame with the side channel behind its send_string: the message of
\* a counter in lossy is lost (send_string raises, or nothing is delivered);
\* every other message is sent and queued on the SUB socket, for which the
\* sender waits until the socket has room
PublishAndDeliver ==
    /\ SenderProcessFrame
    /\ IF s_frame_count' \in lossy
       THEN UNCHANGED sub_inbox
       ELSE /\ zmq_out' # NoMsg
            /\ Len(sub_inbox) < MaxInbox
            /\ sub_inbox' = Append(sub_inbox, WireMessage(zmq_out'))
    /\ UNCHANGED <<storeVars, recvVars, sub_pc, sub_hist, rec, faults, lossy>>

\* the datagrams of the frame last written are lost on the way
\* (udp://operator_ip:video_port)
TransportDrop ==
    /\ wire # NoWire
    /\ wire' = NoWire
    /\ UNCHANGED <<s_pc, s_running, s_frame_count, s_start_time, s_last_fps_print,
                   s_clock, s_frame, s_painted, cfg_dims, zmq_out, written, s_log,
                   s_res>>

\* the sets of lost counters of a short run
StaleLossy == { {}, {MaxLinkCount} }

InitStale ==
    /\ SenderInit
    /\ cfg_dims = <<3 * CellSide + 1, 2 * CellSide + 1>>
    /\ StoreInitEmpty
    /\ RecvInit
    /\ SubInit
    /\ rec = RecorderInit
    /\ faults = {}
    /\ lossy \in StaleLossy

\* the sender's loop up to the counter MaxLinkCount, with the fps reset that
\* takes the counter back to 0, beside the subscriber and the decode of the
\* frames written
NextStale ==
    \/ ReceiverStart /\ UNCHANGED <<senderVars, sideVars>>
    \/ SubTop /\ UNCHANGED <<senderVars, recvVars, rec, faults, lossy>>
    \/ SubPoll /\ UNCHANGED <<senderVars, recvVars, rec, faults, lossy>>
    \/ SenderStart /\ UNCHANGED <<storeVars, recvVars, sideVars>>
    \/ SenderCapture /\ s_frame_count < MaxLinkCount
         /\ UNCHANGED <<storeVars, recvVars, sideVars>>
    \/ PublishAndDeliver
    \/ SenderTick /\ UNCHANGED <<storeVars, recvVars, sideVars>>
    \/ SenderCalculateFps /\ UNCHANGED <<storeVars, recvVars, sideVars>>
    \/ SenderWrite /\ UNCHANGED <<storeVars, recvVars, sideVars>>
    \/ DecodeWritten /\ Len(all_latencies) < MaxSamples /\ UNCHANGED sideVars
    \/ TransportDrop /\ UNCHANGED <<storeVars, recvVars, sideVars>>

SpecStale == InitStale /\ [][NextStale]_vars

\* C28: when the frame the sender has just written is decoded and Correlate
\* yields a sample for it, a message was published for that frame, with the
\* counter looked up, and the sample is the time of the lookup minus the
\* timestamp of that message; when no message was published for the frame,
\* Correlate yields no sample
C28_NoStaleSample ==
    [][(/\ wire # NoWire /\ wire' = NoWire
        /\ Len(s_log) = 4 /\ s_log[4].ev = "write"
        /\ last_call'.op = "Correlate"
        /\ last_call' # last_call
        /\ last_call'.hit)
       => (/\ zmq_out # NoMsg
           /\ zmq_out.frame_count = last_call'.frame_count
           /\ last_call'.latency
                = (last_call'.arg - zmq_out.timestamp) * MsPerSecond)]_vars

-----------------------------------------------------------------------------
(* The keys of the store when every message comes from the sender *)

\* the sets of lost counters of a run through the whole counter cycle
KeysLossy == { {}, {0}, {5, FingerprintModulus - 1} }

\* the counter values at which a second of the sender's clock may pass: early
\* in the cycle and at its end
TickCounts == {2, FingerprintModulus - 1}

InitKeys ==
    /\ SenderInit
    /\ cfg_dims = <<3 * CellSide + 1, 2 * CellSide + 1>>
    /\ StoreInitEmpty
    /\ RecvInit
    /\ SubInit
    /\ rec = RecorderInit
    /\ faults = {}
    /\ lossy \in KeysLossy

\* the sender's loop, unbounded, with the subscriber as the only caller of
\* Record and the sender's publish as the only source of messages
NextKeys ==
    \/ ReceiverStart /\ UNCHANGED <<senderVars, sideVars>>
    \/ SubTop /\ UNCHANGED <<senderVars, recvVars, rec, faults, lossy>>
    \/ SubPoll /\ UNCHANGED <<senderVars, recvVars, rec, faults, lossy>>
    \/ SenderStart /\ UNCHANGED <<storeVars, recvVars, sideVars>>
    \/ SenderCapture /\ UNCHANGED <<storeVars, recvVars, sideVars>>
    \/ PublishAndDeliver
    \/ SenderTick /\ s_frame_count \in TickCounts
         /\ UNCHANGED <<storeVars, recvVars, sideVars>>
    \/ SenderCalculateFps /\ UNCHANGED <<storeVars, recvVars, sideVars>>
    \/ SenderWrite /\ UNCHANGED <<storeVars, recvVars, sideVars>>
    \/ TransportDrop /\ UNCHANGED <<storeVars, recvVars, sideVars>>

SpecKeys == InitKeys /\ [][NextKeys]_vars


\* C29: with the sender's publish as the only source of messages, every key
\* of the store is an integer of 0 .. 31, the store holds at most 32 entries,
\* which is below the size that starts the clean-up, and no call of Record
\* has removed an entry
C29_KeysWithinFingerprintRange ==
    /\ DOMAIN frame_timestamps \subseteq 0 .. (FingerprintModulus - 1)
    /\ StoreSize <= FingerprintModulus
    /\ StoreSize <= MaxEntries
    /\ last_call.op = "Record" => last_call.evicted = {}
    /\ evicted_keys = {}

\* the store holds all 32 keys and the counter 1 has been recorded once more,
\* in the second round of the counter
C29_Witness ==
    /\ DOMAIN frame_timestamps = 0 .. (FingerprintModulus - 1)
    /\ last_call.op = "Record"
    /\ last_call.frame_count = 1
    /\ s_frame_count = 1

-----------------------------------------------------------------------------
(* Record and Correlate in two threads, statement by statement *)

\* the counter every frame of DecoderFrames decodes to
RaceCounter == FingerprintModulus - 1

\* the messages a publisher at robot_ip:zmq_port sends behind a full store: a
\* key the store does not hold, and the key of the frames
RaceMessages == { SubMsg("object", TRUE, TRUE, RaceCounter + MaxEntries, 0),
                  SubMsg("object", TRUE, TRUE, RaceCounter, 0) }

\* the receiver running, its store holding MaxEntries entries of which the
\* frames' counter is the smallest key, and one message waiting
InitRace ==
    /\ SenderInit
    /\ cfg_dims = <<3 * CellSide + 1, 2 * CellSide + 1>>
    /\ frame_timestamps = [k \in RaceCounter .. (RaceCounter + MaxEntries - 1) |-> 0]
    /\ latency_values = <<>>
    /\ all_latencies = <<>>
    /\ last_call = [NoCall EXCEPT !.op = "Record",
                        !.frame_count = RaceCounter + MaxEntries - 1, !.arg = 0]
    /\ evicted_keys = {}
    /\ ncalls = 0
    /\ r_running = TRUE
    /\ r_pc = "top"
    /\ r_frame = NoFrame
    /\ r_decoded = NoDecode
    /\ r_push = "none"
    /\ frame_queue = <<>>
    /\ d_pc = "get"
    /\ d_frame_count = 0
    /\ d_last_time = 0
    /\ r_clock = 0
    /\ r_res = [ReceiverResInit EXCEPT !.ffmpeg = "running", !.windows = "open"]
    /\ sub_pc = "top"
    /\ \E m \in RaceMessages : sub_inbox = <<m>>
    /\ sub_hist = <<>>
    /\ rec = RecorderInit
    /\ faults = {}
    /\ lossy = {}

\* _read_frames, process_frame, calculate_true_latency up to its test
\* 'frame_count in self.frame_timestamps': a miss returns (None, None), a hit
\* goes on to the read of the entry
ReaderReadTest ==
    /\ r_pc = "read"
    /\ r_res.ffmpeg = "running"
    /\ \E f \in DecoderFrames :
         LET d == Decode(f)
         IN /\ d.ok
            /\ r_decoded' = [ok |-> TRUE, counter |-> d.counter, painted |-> -1,
                             intact |-> FALSE]
            /\ r_frame' = f
            /\ IF d.counter \in DOMAIN frame_timestamps
               THEN /\ r_pc' = "lookup"
                    /\ UNCHANGED storeVars
               ELSE /\ r_pc' = "check_full"
                    /\ Correlate(d.counter, r_clock)
                    /\ UNCHANGED ncalls
    /\ UNCHANGED <<r_running, r_push, frame_queue, d_pc, d_frame_count, d_last_time,
                   r_clock, r_res>>

\* calculate_true_latency from 'sent_time = self.frame_timestamps[frame_count]'
\* on: the read of a key that is gone raises KeyError, which the except clause
\* of _read_frames catches, and the frame is not queued
ReaderLookup ==
    /\ r_pc = "lookup"
    /\ IF r_decoded.counter \in DOMAIN frame_timestamps
       THEN /\ Correlate(r_decoded.counter, r_clock)
            /\ r_pc' = "check_full"
            /\ UNCHANGED r_frame
       ELSE /\ last_call' = [NoCall EXCEPT !.op = "CorrelateKeyError",
                                 !.frame_count = r_decoded.counter, !.arg = r_clock]
            /\ r_frame' = NoFrame
            /\ r_pc' = "top"
            /\ UNCHANGED <<frame_timestamps, latency_values, all_latencies,
                           evicted_keys>>
    /\ UNCHANGED ncalls
    /\ UNCHANGED <<r_running, r_decoded, r_push, frame_queue, d_pc, d_frame_count,
                   d_last_time, r_clock, r_res>>

NextRace ==
    \/ ReaderTop /\ UNCHANGED <<senderVars, sideVars>>
    \/ ReaderReadTest /\ Len(all_latencies) < MaxSamples
         /\ UNCHANGED <<senderVars, sideVars>>
    \/ ReaderLookup /\ UNCHANGED <<senderVars, sideVars>>
    \/ ReaderCheckFull /\ UNCHANGED <<senderVars, sideVars>>
    \/ ReaderPut /\ UNCHANGED <<senderVars, sideVars>>
    \/ SubTop /\ UNCHANGED <<senderVars, recvVars, rec, faults, lossy>>
    \/ SubPoll /\ UNCHANGED <<senderVars, recvVars, rec, faults, lossy>>
    \/ RecvTick /\ UNCHANGED <<senderVars, storeVars, sideVars>>

SpecRace == InitRace /\ [][NextRace]_vars

\* C30: in every interleaving of the subscriber's Record with the reader's
\* Correlate, Correlate never fails with a missing key, a sample it returns is
\* computed from the timestamp the store holds for the counter, and the store
\* holds at most MaxEntries entries whenever Record has returned
C30_RecordCorrelateSafe ==
    /\ last_call.op # "CorrelateKeyError"
    /\ StoreSize <= MaxEntries
    /\ (last_call.op = "Correlate" /\ last_call.hit)
          => /\ last_call.frame_count \in DOMAIN frame_timestamps
             /\ last_call.latency
                  = (last_call.arg - frame_timestamps[last_call.frame_count])
                       * MsPerSecond

=============================================================================
